---- MODULE Spec2Model ----
(***************************************************************************)
(* cryptolite: byte-array encodings (byte_array.py), random generation     *)
(* (random.py) and key generation (Keys.py).                               *)
(*                                                                         *)
(* Python values are tagged records.  A byte array is a sequence of        *)
(* integers 0..255, a str is a sequence of Unicode code points, and a      *)
(* raised exception is the value Raise(<exception class>).                 *)
(***************************************************************************)
EXTENDS Integers, Sequences, FiniteSets, TLC

None == [tag |-> "None"]
Bytes(b) == [tag |-> "bytearray", v |-> b]
Str(s) == [tag |-> "str", v |-> s]
Raise(e) == [tag |-> "raise", exc |-> e]

IsNone(x) == x.tag = "None"
IsBytes(x) == x.tag = "bytearray"
IsStr(x) == x.tag = "str"
IsRaise(x) == x.tag = "raise"

(***************************************************************************)
(* The codecs of the Python runtime that byte_array.py calls.              *)
(***************************************************************************)

\* byte_array.py:34
ENCODING == "UTF8"

\* A loop `for i in lo..hi: st = body(st, i)`, run as two halves so that
\* the evaluation nests only as deep as the logarithm of its length.
RECURSIVE Loop(_, _, _, _)
Loop(body(_, _), st, lo, hi) ==
    IF lo > hi THEN st
    ELSE IF lo = hi THEN body(st, lo)
    ELSE LET mid == (lo + hi) \div 2
             left == Loop(body, st, lo, mid)
         IN  IF left = left THEN Loop(body, left, mid + 1, hi) ELSE st

\* One byte of a strict UTF-8 decoder: `need` continuation bytes are still
\* to come for the code point `cp`, the next of them within lo..hi (which
\* rules out overlong forms, surrogates and code points above U+10FFFF).
Utf8DecodeStep(st, c) ==
    IF st.err THEN st
    ELSE IF st.need = 0
    THEN IF c < 128
         THEN [st EXCEPT !.out = Append(@, c)]
         ELSE IF c >= 194 /\ c <= 223
         THEN [st EXCEPT !.need = 1, !.cp = c - 192, !.lo = 128, !.hi = 191]
         ELSE IF c >= 224 /\ c <= 239
         THEN [st EXCEPT !.need = 2, !.cp = c - 224,
                         !.lo = IF c = 224 THEN 160 ELSE 128,
                         !.hi = IF c = 237 THEN 159 ELSE 191]
         ELSE IF c >= 240 /\ c <= 244
         THEN [st EXCEPT !.need = 3, !.cp = c - 240,
                         !.lo = IF c = 240 THEN 144 ELSE 128,
                         !.hi = IF c = 244 THEN 143 ELSE 191]
         ELSE [st EXCEPT !.err = TRUE]
    ELSE IF c >= st.lo /\ c <= st.hi
    THEN LET cp == st.cp * 64 + (c - 128)
         IN  IF st.need = 1
             THEN [st EXCEPT !.need = 0, !.cp = 0, !.lo = 128, !.hi = 191,
                             !.out = Append(@, cp)]
             ELSE [st EXCEPT !.need = @ - 1, !.cp = cp, !.lo = 128, !.hi = 191]
    ELSE [st EXCEPT !.err = TRUE]

\* bytes.decode("UTF8"), strict: a UnicodeDecodeError for an ill-formed or
\* truncated sequence.
utf8_decode(b) ==
    LET step(st, i) == Utf8DecodeStep(st, b[i])
        end == Loop(step, [out |-> <<>>, need |-> 0, cp |-> 0, lo |-> 128,
                           hi |-> 191, err |-> FALSE], 1, Len(b))
    IN  IF end.err \/ end.need # 0 THEN Raise("UnicodeDecodeError")
        ELSE Str(end.out)

\* The UTF-8 bytes of one code point.
Utf8Bytes(c) ==
    IF c < 128 THEN <<c>>
    ELSE IF c < 2048 THEN <<192 + (c \div 64), 128 + (c % 64)>>
    ELSE IF c < 65536
    THEN <<224 + (c \div 4096), 128 + ((c \div 64) % 64), 128 + (c % 64)>>
    ELSE <<240 + (c \div 262144), 128 + ((c \div 4096) % 64),
           128 + ((c \div 64) % 64), 128 + (c % 64)>>

\* A surrogate code point, U+D800..U+DFFF.
IsSurrogate(c) == c >= 55296 /\ c <= 57343

\* str.encode("UTF8"), strict: a surrogate code point cannot be encoded.
utf8_encode(s) ==
    LET step(st, i) == IF IsSurrogate(s[i]) THEN [st EXCEPT !.err = TRUE]
                       ELSE [st EXCEPT !.out = @ \o Utf8Bytes(s[i])]
        end == Loop(step, [out |-> <<>>, err |-> FALSE], 1, Len(s))
    IN  IF end.err THEN Raise("UnicodeEncodeError") ELSE Bytes(end.out)

\* bytes.decode(encoding) and str.encode(encoding) for the one encoding used.
decode(b, encoding) == IF encoding \in {"UTF8", "utf-8"} THEN utf8_decode(b)
                       ELSE Raise("LookupError")
encode(s, encoding) == IF encoding \in {"UTF8", "utf-8"} THEN utf8_encode(s)
                       ELSE Raise("LookupError")

\* The digit "0123456789abcdef"[n] as a code point.
HexDigitChar(n) == IF n < 10 THEN 48 + n ELSE 87 + n

\* hexlify with the two digits of a byte swapped: low nibble first.
hexlify_low_nibble_first(b) ==
    [i \in 1..(2 * Len(b)) |->
        IF i % 2 = 1 THEN HexDigitChar(b[(i + 1) \div 2] % 16)
        ELSE HexDigitChar(b[i \div 2] \div 16)]

\* binascii.hexlify: two lowercase hex digits per byte, high nibble first.
hexlify(b) ==
    [i \in 1..(2 * Len(b)) |->
        IF i % 2 = 1 THEN HexDigitChar(b[(i + 1) \div 2] \div 16)
        ELSE HexDigitChar(b[i \div 2] % 16)]

\* The value of a character as a digit (CPython's _PyLong_DigitValue): 37
\* for a character that is no digit in any base.
DigitValue(c) == IF c >= 48 /\ c <= 57 THEN c - 48
                 ELSE IF c >= 97 /\ c <= 122 THEN c - 87
                 ELSE IF c >= 65 /\ c <= 90 THEN c - 55
                 ELSE 37

\* Py_ISSPACE: tab, line feed, vertical tab, form feed, carriage return, space.
IsSpace(c) == c \in {9, 10, 11, 12, 13, 32}

\* One character of bytearray.fromhex: `top` is the first digit of a pair
\* whose second digit is due (-1 between pairs).  Whitespace is skipped
\* between pairs only; anything that is not a hex digit is an error.
FromHexStep(st, c) ==
    IF st.err THEN st
    ELSE IF st.top = -1 /\ IsSpace(c) THEN st
    ELSE IF DigitValue(c) >= 16 THEN [st EXCEPT !.err = TRUE]
    ELSE IF st.top = -1 THEN [st EXCEPT !.top = DigitValue(c)]
    ELSE [st EXCEPT !.top = -1, !.out = Append(@, st.top * 16 + DigitValue(c))]

\* bytearray.fromhex(s): a ValueError for a str that is not ASCII, holds a
\* character that is no hex digit, or ends in the middle of a pair.
fromhex(s) ==
    LET step(st, i) == FromHexStep(st, s[i])
        end == Loop(step, [out |-> <<>>, top |-> -1, err |-> FALSE], 1, Len(s))
    IN  IF \E i \in 1..Len(s) : s[i] > 127 THEN Raise("ValueError")
        ELSE IF end.err \/ end.top # -1 THEN Raise("ValueError")
        ELSE Bytes(end.out)

\* The base-64 alphabet A-Z a-z 0-9 + / as code points (table_b2a_base64).
B64Char(n) == IF n < 26 THEN 65 + n
              ELSE IF n < 52 THEN 97 + (n - 26)
              ELSE IF n < 62 THEN 48 + (n - 52)
              ELSE IF n = 62 THEN 43 ELSE 47

\* The value of a base-64 character (table_a2b_base64): 64 for a character
\* outside the alphabet.
B64Value(c) == IF c >= 65 /\ c <= 90 THEN c - 65
               ELSE IF c >= 97 /\ c <= 122 THEN c - 97 + 26
               ELSE IF c >= 48 /\ c <= 57 THEN c - 48 + 52
               ELSE IF c = 43 THEN 62
               ELSE IF c = 47 THEN 63
               ELSE 64

\* The pad character "=" of base-64.
BASE64_PAD == 61

\* The four characters of a group of one, two or three bytes.
B64Group(g) ==
    IF Len(g) = 1
    THEN <<B64Char(g[1] \div 4), B64Char((g[1] % 4) * 16),
           BASE64_PAD, BASE64_PAD>>
    ELSE IF Len(g) = 2
    THEN <<B64Char(g[1] \div 4), B64Char((g[1] % 4) * 16 + g[2] \div 16),
           B64Char((g[2] % 16) * 4), BASE64_PAD>>
    ELSE <<B64Char(g[1] \div 4), B64Char((g[1] % 4) * 16 + g[2] \div 16),
           B64Char((g[2] % 16) * 4 + g[3] \div 64), B64Char(g[3] % 64)>>

\* base64.b64encode: three bytes to four characters, the last group padded.
b64encode(b) ==
    LET last(k) == IF 3 * k < Len(b) THEN 3 * k ELSE Len(b)
        step(out, k) == out \o B64Group(SubSeq(b, 3 * k - 2, last(k)))
    IN  Loop(step, <<>>, 1, (Len(b) + 2) \div 3)

\* One character of binascii.a2b_base64 with strict_mode off: a character
\* outside the alphabet is skipped, a pad that does not complete a quad is
\* skipped, and a pad that completes one ends the decoding (`done`) with the
\* rest of the input unread.
A2bBase64Step(st, c) ==
    IF st.done THEN st
    ELSE IF c = BASE64_PAD
    THEN IF st.quad_pos >= 2 /\ st.quad_pos + st.pads + 1 >= 4
         THEN [st EXCEPT !.done = TRUE]
         ELSE IF st.quad_pos >= 2 THEN [st EXCEPT !.pads = @ + 1] ELSE st
    ELSE LET this_ch == B64Value(c)
         IN  IF this_ch >= 64 THEN st
             ELSE IF st.quad_pos = 0
             THEN [st EXCEPT !.quad_pos = 1, !.leftchar = this_ch, !.pads = 0]
             ELSE IF st.quad_pos = 1
             THEN [st EXCEPT !.quad_pos = 2, !.leftchar = this_ch % 16,
                             !.pads = 0,
                             !.out = Append(@, st.leftchar * 4 + this_ch \div 16)]
             ELSE IF st.quad_pos = 2
             THEN [st EXCEPT !.quad_pos = 3, !.leftchar = this_ch % 4,
                             !.pads = 0,
                             !.out = Append(@, st.leftchar * 16 + this_ch \div 4)]
             ELSE [st EXCEPT !.quad_pos = 0, !.leftchar = 0, !.pads = 0,
                             !.out = Append(@, st.leftchar * 64 + this_ch)]

\* binascii.a2b_base64(s, strict_mode=False): a binascii.Error when the
\* input ends inside a quad.
a2b_base64(s) ==
    LET step(st, i) == A2bBase64Step(st, s[i])
        end == Loop(step, [quad_pos |-> 0, leftchar |-> 0, pads |-> 0,
                           out |-> <<>>, done |-> FALSE], 1, Len(s))
    IN  IF ~end.done /\ end.quad_pos # 0 THEN Raise("binascii.Error")
        ELSE Bytes(end.out)

\* base64.b64decode(s), validate off: a str is first encoded as ASCII (a
\* ValueError when it is not ASCII), then decoded.
b64decode(s) == IF \E i \in 1..Len(s) : s[i] > 127 THEN Raise("ValueError")
                ELSE a2b_base64(s)

\* bytearray(x): x when it is a byte sequence, the exception when x raised.
bytearray(r) == r

(***************************************************************************)
(* byte_array.py                                                           *)
(***************************************************************************)

to_hex_string(byte_array) ==
    IF byte_array # None
    THEN decode(hexlify(byte_array.v), ENCODING)
    ELSE None

\* from_hex_string without its check for None.
from_hex_string_unchecked(hex_string) ==
    IF hex_string = None THEN Raise("TypeError") ELSE fromhex(hex_string.v)

from_hex_string(hex_string) ==
    IF hex_string # None
    THEN fromhex(hex_string.v)
    ELSE None

to_base64_string(byte_array) ==
    IF byte_array # None
    THEN decode(b64encode(byte_array.v), ENCODING)
    ELSE None

from_base64_string(base64_string) ==
    IF base64_string # None
    THEN bytearray(b64decode(base64_string.v))
    ELSE None

to_string(byte_array) ==
    IF byte_array # None
    THEN decode(byte_array.v, ENCODING)
    ELSE None

from_string(unicode_string) ==
    IF unicode_string # None
    THEN bytearray(encode(unicode_string.v, ENCODING))
    ELSE None

(***************************************************************************)
(* The key derivation Keys.py calls: PBKDF2 (RFC 8018) with HMAC (RFC      *)
(* 2104) of SHA-256 (FIPS 180-4).  A 32-bit word is a pair <<high, low>>   *)
(* of 16-bit halves.  The operations on words and the loops over rounds    *)
(* are functions, which take their arguments by value.                     *)
(***************************************************************************)

\* Exclusive or, and conjunction, of two 4-bit numbers, bit by bit.
XorNibble ==
    [a \in 0..15 |-> [b \in 0..15 |->
        ((a + b) % 2) + 2 * (((a \div 2) + (b \div 2)) % 2)
        + 4 * (((a \div 4) + (b \div 4)) % 2)
        + 8 * (((a \div 8) + (b \div 8)) % 2)]]
AndNibble ==
    [a \in 0..15 |-> [b \in 0..15 |->
        ((a % 2) * (b % 2)) + 2 * (((a \div 2) % 2) * ((b \div 2) % 2))
        + 4 * (((a \div 4) % 2) * ((b \div 4) % 2))
        + 8 * ((a \div 8) * (b \div 8))]]

\* The same of two bytes, and of two 16-bit halves.
XorByte ==
    [a \in 0..255 |-> [b \in 0..255 |->
        16 * XorNibble[a \div 16][b \div 16] + XorNibble[a % 16][b % 16]]]
AndByte ==
    [a \in 0..255 |-> [b \in 0..255 |->
        16 * AndNibble[a \div 16][b \div 16] + AndNibble[a % 16][b % 16]]]
Half == 0..65535
Word == Half \X Half
Xor16[a \in Half, b \in Half] ==
    256 * XorByte[a \div 256][b \div 256] + XorByte[a % 256][b % 256]
And16[a \in Half, b \in Half] ==
    256 * AndByte[a \div 256][b \div 256] + AndByte[a % 256][b % 256]

\* The operations of FIPS 180-4 section 3.2 on words.
Xor[x \in Word, y \in Word] == <<Xor16[x[1], y[1]], Xor16[x[2], y[2]]>>
And[x \in Word, y \in Word] == <<And16[x[1], y[1]], And16[x[2], y[2]]>>
Not[x \in Word] == <<65535 - x[1], 65535 - x[2]>>
Add[x \in Word, y \in Word] ==
    <<(x[1] + y[1] + (x[2] + y[2]) \div 65536) % 65536, (x[2] + y[2]) % 65536>>
\* Rotation and shift to the right by n < 16 bits, and rotation by any n < 32.
RotrHalf[x \in Word, n \in 0..15] ==
    <<(x[1] \div 2 ^ n) + (x[2] % 2 ^ n) * 2 ^ (16 - n),
      (x[2] \div 2 ^ n) + (x[1] % 2 ^ n) * 2 ^ (16 - n)>>
Shr[x \in Word, n \in 0..15] ==
    <<x[1] \div 2 ^ n, (x[2] \div 2 ^ n) + (x[1] % 2 ^ n) * 2 ^ (16 - n)>>
Rotr[x \in Word, n \in 0..31] ==
    IF n >= 16 THEN RotrHalf[<<x[2], x[1]>>, n - 16] ELSE RotrHalf[x, n]

\* The functions of FIPS 180-4 section 4.1.2.
Ch[x \in Word, y \in Word, z \in Word] == Xor[And[x, y], And[Not[x], z]]
Maj[x \in Word, y \in Word, z \in Word] ==
    Xor[Xor[And[x, y], And[x, z]], And[y, z]]
BigSigma0[x \in Word] == Xor[Xor[Rotr[x, 2], Rotr[x, 13]], Rotr[x, 22]]
BigSigma1[x \in Word] == Xor[Xor[Rotr[x, 6], Rotr[x, 11]], Rotr[x, 25]]
SmallSigma0[x \in Word] == Xor[Xor[Rotr[x, 7], Rotr[x, 18]], Shr[x, 3]]
SmallSigma1[x \in Word] == Xor[Xor[Rotr[x, 17], Rotr[x, 19]], Shr[x, 10]]

\* The constants of FIPS 180-4 section 4.2.2 and the initial hash value of
\* section 5.3.3.
Sha256K ==
    << <<17034, 12184>>, <<28983, 17553>>, <<46528, 64463>>, <<59829, 56229>>,
        <<14678, 49755>>, <<23025, 4593>>, <<37439, 33444>>, <<43804, 24277>>,
        <<55303, 43672>>, <<4739, 23297>>, <<9265, 34238>>, <<21772, 32195>>,
        <<29374, 23924>>, <<32990, 45566>>, <<39900, 1703>>, <<49563, 61812>>,
        <<58523, 27073>>, <<61374, 18310>>, <<4033, 40390>>, <<9228, 41420>>,
        <<11753, 11375>>, <<19060, 33962>>, <<23728, 43484>>, <<30457, 35034>>,
        <<38974, 20818>>, <<43057, 50797>>, <<45059, 10184>>, <<48985, 32711>>,
        <<50912, 3059>>, <<54695, 37191>>, <<1738, 25425>>, <<5161, 10599>>,
        <<10167, 2693>>, <<11803, 8504>>, <<19756, 28156>>, <<21304, 3347>>,
        <<25866, 29524>>, <<30314, 2747>>, <<33218, 51502>>, <<37490, 11397>>,
        <<41663, 59553>>, <<43034, 26187>>, <<49739, 35696>>, <<51052, 20899>>,
        <<53650, 59417>>, <<54937, 1572>>, <<62478, 13701>>, <<4202, 41072>>,
        <<6564, 49430>>, <<7735, 27656>>, <<10056, 30540>>, <<13488, 48309>>,
        <<14620, 3251>>, <<20184, 43594>>, <<23452, 51791>>, <<26670, 28659>>,
        <<29839, 33518>>, <<30885, 25455>>, <<33992, 30740>>, <<36039, 520>>,
        <<37054, 65530>>, <<42064, 27883>>, <<48889, 41975>>, <<50801, 30962>> >>
Sha256H0 ==
    <<
        <<27145, 58983>>, <<47975, 44677>>, <<15470, 62322>>, <<42319, 62778>>,
        <<20750, 21119>>, <<39685, 26764>>, <<8067, 55723>>, <<23520, 52505>> >>

\* The message schedule (section 6.2.2, step 1): the sixteen words of a
\* block extended to sixty-four.
Sha256Schedule[w \in Seq(Word)] ==
    IF Len(w) >= 64 THEN w
    ELSE Sha256Schedule[
            Append(w, Add[Add[SmallSigma1[w[Len(w) - 1]], w[Len(w) - 6]],
                          Add[SmallSigma0[w[Len(w) - 14]], w[Len(w) - 15]]])]

\* The working variables a..h after one round, given T1 and T2, and after
\* the rounds t..64 (section 6.2.2, step 3).
Sha256State == [1..8 -> Word]
Sha256Round[v \in Sha256State, t1 \in Word, t2 \in Word] ==
    <<Add[t1, t2], v[1], v[2], v[3], Add[v[4], t1], v[5], v[6], v[7]>>
Sha256Rounds[v \in Sha256State, w \in Seq(Word), t \in 1..65] ==
    IF t > 64 THEN v
    ELSE Sha256Rounds[
            Sha256Round[v,
                Add[Add[Add[v[8], BigSigma1[v[5]]],
                        Add[Ch[v[5], v[6], v[7]], Sha256K[t]]], w[t]],
                Add[BigSigma0[v[1]], Maj[v[1], v[2], v[3]]]],
            w, t + 1]

\* One block hashed into the hash value h (section 6.2.2, steps 2 to 4).
Sha256Sum[h \in Sha256State, v \in Sha256State] ==
    [i \in 1..8 |-> Add[h[i], v[i]]]
Sha256Compress(h, block) ==
    Sha256Sum[h, Sha256Rounds[h, Sha256Schedule[block], 1]]

\* The word made of the four bytes of b from position i, big-endian.
WordAt(b, i) == <<b[i] * 256 + b[i + 1], b[i + 2] * 256 + b[i + 3]>>

\* The blocks of `data`, a multiple of 64 bytes, hashed into h in turn.
RECURSIVE Sha256Blocks(_, _)
Sha256Blocks(h, data) ==
    IF data = <<>> THEN h
    ELSE Sha256Blocks(
            Sha256Compress(h, [i \in 1..16 |-> WordAt(data, 4 * i - 3)]),
            SubSeq(data, 65, Len(data)))

\* The padding of a message of n bytes (section 5.1.1): the bit 1, zero bits
\* and the length in bits as a 64-bit number, up to a multiple of 64 bytes.
Sha256Padding(n) ==
    LET zeros == (119 - (n % 64)) % 64
        bits == n * 8
    IN  <<128>> \o [i \in 1..zeros |-> 0] \o <<0, 0, 0, 0>>
        \o <<bits \div 16777216, (bits \div 65536) % 256,
             (bits \div 256) % 256, bits % 256>>

\* The bytes of a hash value, big-endian.
Sha256Digest(h) ==
    [i \in 1..32 |->
        LET half == h[(i + 3) \div 4][((i - 1) % 4) \div 2 + 1]
        IN  IF i % 2 = 1 THEN half \div 256 ELSE half % 256]

\* The digest of a message of which `done` bytes (a multiple of 64) are
\* hashed into h already and `rest` are still to hash.
Sha256Final(h, done, rest) ==
    Sha256Digest(Sha256Blocks(h, rest \o Sha256Padding(done + Len(rest))))

sha256(msg) == Sha256Final(Sha256H0, 0, msg)

\* HMAC-SHA256 (RFC 2104): the key, hashed when longer than a block, is
\* padded with zeros to a block and combined with ipad (0x36) and opad
\* (0x5c); the hash values after the two key blocks serve every message.
HmacKeyBlock(key, pad) ==
    LET k == IF Len(key) > 64 THEN sha256(key) ELSE key
    IN  [i \in 1..64 |-> XorByte[IF i <= Len(k) THEN k[i] ELSE 0][pad]]
HmacInner(key) == Sha256Blocks(Sha256H0, HmacKeyBlock(key, 54))
HmacOuter(key) == Sha256Blocks(Sha256H0, HmacKeyBlock(key, 92))
HmacWith(inner, outer, msg) ==
    Sha256Final(outer, 64, Sha256Final(inner, 64, msg))
hmac_sha256(key, msg) == HmacWith(HmacInner(key), HmacOuter(key), msg)

XorBytes(a, b) == [i \in 1..Len(a) |-> XorByte[a[i]][b[i]]]

\* PBKDF2 (RFC 8018, section 5.2) with HMAC-SHA256: block i of the key is
\* U_1 xor ... xor U_c, U_1 = PRF(P, S || INT(i)), U_j = PRF(P, U_{j-1}).
\* Pbkdf2Iterate makes the steps lo..hi, the first half and then the second.
Pbkdf2State == [u : Seq(0..255), t : Seq(0..255)]
Pbkdf2Step(inner, outer, st) ==
    LET u == HmacWith(inner, outer, st.u)
    IN  [u |-> u, t |-> XorBytes(st.t, u)]
Pbkdf2Iterate[inner \in Sha256State, outer \in Sha256State, st \in Pbkdf2State, lo \in Nat, hi \in Nat] ==
    IF lo > hi THEN st
    ELSE IF lo = hi THEN Pbkdf2Step(inner, outer, st)
    ELSE Pbkdf2Iterate[inner, outer,
                       Pbkdf2Iterate[inner, outer, st, lo, (lo + hi) \div 2],
                       (lo + hi) \div 2 + 1, hi]
Pbkdf2Block(password, salt_bytes, iterations, i) ==
    LET inner == HmacInner(password)
        outer == HmacOuter(password)
        u1 == HmacWith(inner, outer, salt_bytes \o <<0, 0, 0, i>>)
    IN  Pbkdf2Iterate[inner, outer, [u |-> u1, t |-> u1], 2, iterations].t

\* The derived key: the first `length` bytes of the blocks T_1 || T_2 || ...
RECURSIVE Pbkdf2Blocks(_, _, _, _, _)
Pbkdf2Blocks(password, salt_bytes, iterations, i, n) ==
    IF i > n THEN <<>>
    ELSE Pbkdf2Block(password, salt_bytes, iterations, i)
         \o Pbkdf2Blocks(password, salt_bytes, iterations, i + 1, n)
pbkdf2_hmac_sha256(password, salt_bytes, iterations, length) ==
    SubSeq(Pbkdf2Blocks(password, salt_bytes, iterations, 1,
                        (length + 31) \div 32), 1, length)

(***************************************************************************)
(* Keys.py                                                                 *)
(***************************************************************************)

SYMMETRIC_KEY_SIZE == 256

\* The key size taken for the iteration count.
symmetric_password_iterations_of_key_size == SYMMETRIC_KEY_SIZE
SYMMETRIC_PASSWORD_ITERATIONS == 1024

\* A bytes object, and bytes(x): the bytes of a byte array, TypeError for
\* None, the exception when x raised.
ImmutableBytes(b) == [tag |-> "bytes", v |-> b]
bytes(x) == IF IsRaise(x) THEN x
            ELSE IF x = None THEN Raise("TypeError")
            ELSE ImmutableBytes(x.v)

\* backend = default_backend(), made when Keys.py is imported: the object a
\* PBKDF2HMAC hands its derivation to.  What it derives is a function of the
\* request (key material, salt, iterations, length) alone: it holds the keys
\* of `requests`, derived when it is made, and derives any other key when
\* asked.
VARIABLE backend
default_backend(requests) ==
    [a \in requests |-> pbkdf2_hmac_sha256(a[1], a[2], a[3], a[4])]
derive_pbkdf2_hmac(b, length, salt_bytes, iterations, key_material) ==
    LET a == <<key_material, salt_bytes, iterations, length>>
    IN  IF a \in DOMAIN b THEN b[a]
        ELSE pbkdf2_hmac_sha256(key_material, salt_bytes, iterations, length)

\* hashes.SHA256(), the PBKDF2HMAC object made of the arguments, and its
\* derive(key_material): a bytes object of `length` bytes.
SHA256 == "sha256"
PBKDF2HMAC(algorithm, length, salt_bytes, iterations, b) ==
    [algorithm |-> algorithm, length |-> length, salt |-> salt_bytes,
     iterations |-> iterations, backend |-> b]
derive(key_generator, key_material) ==
    IF key_generator.algorithm # SHA256 THEN Raise("UnsupportedAlgorithm")
    ELSE ImmutableBytes(
            derive_pbkdf2_hmac(key_generator.backend, key_generator.length,
                               key_generator.salt, key_generator.iterations,
                               key_material))

\* The passwords handed to generate_secret_key: none; "a"; "\u00e9", which
\* UTF-8 encodes in the two bytes 195, 169; and a str that UTF-8 cannot
\* encode (a lone surrogate).
KeyPasswords == {None, Str(<<97>>), Str(<<233>>), Str(<<55296>>)}
\* The salts: none; "AA==", "AB==" and "AA==\n", three texts of the one byte
\* 0; "AQID", the bytes 1, 2, 3; "A", which ends inside a group of four; and
\* a str that is not ASCII.
KeySalts ==
    {None, Str(<<65, 65, 61, 61>>), Str(<<65, 66, 61, 61>>),
     Str(<<65, 65, 61, 61, 10>>), Str(<<65, 81, 73, 68>>), Str(<<65>>),
     Str(<<233>>)}
\* The requests made of the backend for these passwords and salts.
KeyDerivations ==
    {<<encode(p.v, "utf-8").v, bytes(from_base64_string(s)).v,
       SYMMETRIC_PASSWORD_ITERATIONS, SYMMETRIC_KEY_SIZE \div 8>> :
        p \in {q \in KeyPasswords \ {None} : ~IsRaise(encode(q.v, "utf-8"))},
        s \in {t \in KeySalts : ~IsRaise(bytes(from_base64_string(t)))}}

\* generate_secret_key with the salt decoded before the password is looked at.
generate_secret_key_decoding_salt_first(password, salt) ==
    LET salt_bytes == bytes(from_base64_string(salt))
    IN  IF IsRaise(salt_bytes) THEN salt_bytes
        ELSE IF password = None THEN None
        ELSE LET key_generator ==
                     PBKDF2HMAC(SHA256, SYMMETRIC_KEY_SIZE \div 8, salt_bytes.v,
                                SYMMETRIC_PASSWORD_ITERATIONS, backend)
                 key_material == encode(password.v, "utf-8")
             IN  IF IsRaise(key_material) THEN key_material
                 ELSE derive(key_generator, key_material.v)
generate_secret_key(password, salt) ==
    IF password = None THEN None
    ELSE LET salt_bytes == bytes(from_base64_string(salt))
         IN  IF IsRaise(salt_bytes) THEN salt_bytes
             ELSE LET key_generator ==
                          PBKDF2HMAC(SHA256, SYMMETRIC_KEY_SIZE \div 8,
                                     salt_bytes.v,
                                     SYMMETRIC_PASSWORD_ITERATIONS, backend)
                      key_material == encode(password.v, "utf-8")
                  IN  IF IsRaise(key_material) THEN key_material
                      ELSE derive(key_generator, key_material.v)

(***************************************************************************)
(* random.py                                                               *)
(*                                                                         *)
(* What the operating system's random source hands out is an input of the  *)
(* call: a stream of values, given by the pattern it repeats.              *)
(***************************************************************************)

\* The k-th value (from 1) of the stream that repeats `pattern`.
StreamAt(pattern, k) == pattern[((k - 1) % Len(pattern)) + 1]

TOKEN_BITS == 256

SALT_BYTES == 16

_bits_in_a_byte == 8
\* The token length left in bits.
token_length_not_divided == TOKEN_BITS
_token_length_bytes == TOKEN_BITS \div _bits_in_a_byte

\* string.ascii_letters + string.digits: a-z, A-Z, 0-9 as code points.
passwordCharacters ==
    [i \in 1..62 |-> IF i <= 26 THEN 96 + i
                     ELSE IF i <= 52 THEN 64 + (i - 26)
                     ELSE 47 + (i - 52)]

\* os.urandom(length): `length` bytes of the stream; a negative length is a
\* ValueError.
urandom(length, stream) ==
    IF length < 0 THEN Raise("ValueError")
    ELSE Bytes([k \in 1..length |-> StreamAt(stream, k)])

byte_array(length, stream) == bytearray(urandom(length, stream))

token(stream) ==
    LET token_bytes == byte_array(_token_length_bytes, stream)
    IN  to_hex_string(token_bytes)

\* A range that includes its end.
range_inclusive(n) == 0..n

\* range(n) of Python: 0 .. n-1, empty for n <= 0.
range(n) == 0..(n - 1)

\* secrets.choice(seq): seq[randbelow(len(seq))]; `r` is the value randbelow
\* returned, 0 <= r < len(seq).
choice(seq, r) == seq[r + 1]

\* One choice per element of range(length), the i-th from the i-th value of
\* the stream, joined into a str.
password(length, stream) ==
    Str([k \in 1..Cardinality(range(length)) |->
            choice(passwordCharacters, StreamAt(stream, k))])

\* The number of values password(length) draws from the random source.
password_draws(length) == Cardinality(range(length))

salt(stream) ==
    LET salt_bytes == byte_array(SALT_BYTES, stream)
    IN  to_base64_string(salt_bytes)

(***************************************************************************)
(* The inputs of the model.                                                *)
(***************************************************************************)

\* The longest byte array and the longest str handed to an encoding function.
MaxLen == 4
MaxStrLen == 4
\* The longest password asked for, and how far below zero a length goes.
MaxPasswordLength == 100
MaxNegLength == 2
\* The longest pattern a random stream repeats.
MaxPeriod == 2
\* The most calls of generate_secret_key a client makes.
MaxKeyCalls == 2

SeqsUpTo(S, n) == UNION {[1..k -> S] : k \in 0..n}

\* Bytes: "A", lone continuation bytes, and lead bytes of 2, 3 and 4 byte
\* UTF-8 sequences.
ByteSamples == {65, 128, 159, 195, 226, 240}
ByteArrays == {Bytes(b) : b \in SeqsUpTo(ByteSamples, MaxLen)}

\* Characters: "0", "a", "F", "x", " " and e-acute.
HexCharSamples == {48, 97, 70, 120, 32, 233}
HexStrings == {Str(s) : s \in SeqsUpTo(HexCharSamples, MaxStrLen)}

\* Characters: "A", "Q", "/", "=", "!" and e-acute.
Base64CharSamples == {65, 81, 47, 61, 33, 233}
Base64Strings == {Str(s) : s \in SeqsUpTo(Base64CharSamples, MaxStrLen)}

\* Characters: "a", e-acute, the euro sign, an emoji, a lone surrogate.
TextCharSamples == {97, 233, 8364, 128512, 55296}
TextStrings == {Str(s) : s \in SeqsUpTo(TextCharSamples, MaxStrLen)}

RandomByteSamples == {0, 1, 127, 128, 255}
ByteStreams == SeqsUpTo(RandomByteSamples, MaxPeriod) \ {<<>>}

\* Values of randbelow(62): the first and last index of each character class.
RandomIndexSamples == {0, 25, 26, 51, 52, 61}
IndexStreams == SeqsUpTo(RandomIndexSamples, MaxPeriod) \ {<<>>}

Lengths == (0 - MaxNegLength)..MaxPasswordLength

(***************************************************************************)
(* The state: the calls a client has made, each with its arguments, what   *)
(* it returned or raised, and the random values it drew.  A client makes   *)
(* one call on an input of its own and may hand the str it got back to a   *)
(* decoding function.  The backend of Keys.py is state too.                *)
(***************************************************************************)
VARIABLES calls

vars == <<calls, backend>>

Call(fn, args, ret, rnd) == [fn |-> fn, args |-> args, ret |-> ret, rnd |-> rnd]

\* A client of byte_array.py and random.py: nothing asks the backend for a key.
Init == calls = <<>> /\ backend = default_backend({})

CallToHexString ==
    /\ calls = <<>>
    /\ \E b \in ByteArrays \cup {None} :
          calls' = <<Call("to_hex_string", <<b>>, to_hex_string(b), <<>>)>>
    /\ UNCHANGED backend

CallFromHexString ==
    /\ calls = <<>>
    /\ \E s \in HexStrings \cup {None} :
          calls' = <<Call("from_hex_string", <<s>>, from_hex_string(s), <<>>)>>
    /\ UNCHANGED backend

CallToBase64String ==
    /\ calls = <<>>
    /\ \E b \in ByteArrays \cup {None} :
          calls' = <<Call("to_base64_string", <<b>>, to_base64_string(b), <<>>)>>
    /\ UNCHANGED backend

CallFromBase64String ==
    /\ calls = <<>>
    /\ \E s \in Base64Strings \cup {None} :
          calls' = <<Call("from_base64_string", <<s>>,
                          from_base64_string(s), <<>>)>>
    /\ UNCHANGED backend

CallToString ==
    /\ calls = <<>>
    /\ \E b \in ByteArrays \cup {None} :
          calls' = <<Call("to_string", <<b>>, to_string(b), <<>>)>>
    /\ UNCHANGED backend

CallFromString ==
    /\ calls = <<>>
    /\ \E s \in TextStrings \cup {None} :
          calls' = <<Call("from_string", <<s>>, from_string(s), <<>>)>>
    /\ UNCHANGED backend

CallToken ==
    /\ calls = <<>>
    /\ \E stream \in ByteStreams :
          calls' = <<Call("token", <<>>, token(stream),
                          urandom(_token_length_bytes, stream).v)>>
    /\ UNCHANGED backend

CallSalt ==
    /\ calls = <<>>
    /\ \E stream \in ByteStreams :
          calls' = <<Call("salt", <<>>, salt(stream),
                          urandom(SALT_BYTES, stream).v)>>
    /\ UNCHANGED backend

CallPassword ==
    /\ calls = <<>>
    /\ \E length \in Lengths, stream \in IndexStreams :
          calls' = <<Call("password", <<length>>, password(length, stream),
                          [k \in 1..password_draws(length) |->
                              StreamAt(stream, k)])>>
    /\ UNCHANGED backend

\* The functions whose str result is an encoding of bytes.
Encoders == {"to_hex_string", "to_base64_string", "to_string", "token", "salt"}

\* Whether the first call returned an encoding, to hand to a decoding function.
HasEncoding == Len(calls) = 1 /\ calls[1].fn \in Encoders /\ IsStr(calls[1].ret)

DecodeHexOfResult ==
    /\ HasEncoding
    /\ calls' = Append(calls, Call("from_hex_string", <<calls[1].ret>>,
                                   from_hex_string(calls[1].ret), <<>>))
    /\ UNCHANGED backend

\* test_hex_prefix: "0x" + to_hex_string(data), handed to from_hex_string.
DecodePrefixedHexOfResult ==
    /\ Len(calls) = 1 /\ calls[1].fn = "to_hex_string" /\ IsStr(calls[1].ret)
    /\ LET hex_string == Str(<<48, 120>> \o calls[1].ret.v)
       IN  calls' = Append(calls, Call("from_hex_string", <<hex_string>>,
                                      from_hex_string(hex_string), <<>>))
    /\ UNCHANGED backend

DecodeBase64OfResult ==
    /\ HasEncoding
    /\ calls' = Append(calls, Call("from_base64_string", <<calls[1].ret>>,
                                   from_base64_string(calls[1].ret), <<>>))
    /\ UNCHANGED backend

EncodeStringOfResult ==
    /\ HasEncoding
    /\ calls' = Append(calls, Call("from_string", <<calls[1].ret>>,
                                   from_string(calls[1].ret), <<>>))
    /\ UNCHANGED backend

Next ==
    \/ CallToHexString \/ CallFromHexString
    \/ CallToBase64String \/ CallFromBase64String
    \/ CallToString \/ CallFromString
    \/ CallToken \/ CallSalt \/ CallPassword
    \/ DecodeHexOfResult \/ DecodePrefixedHexOfResult
    \/ DecodeBase64OfResult \/ EncodeStringOfResult

Spec == Init /\ [][Next]_vars

\* A client of Keys.py: the module is imported, which makes the backend, and
\* generate_secret_key is called up to MaxKeyCalls times.
InitKeys == calls = <<>> /\ backend = default_backend(KeyDerivations)

CallGenerateSecretKey ==
    /\ Len(calls) < MaxKeyCalls
    /\ \E p \in KeyPasswords, s \in KeySalts :
          calls' = Append(calls, Call("generate_secret_key", <<p, s>>,
                                     generate_secret_key(p, s), <<>>))
    /\ UNCHANGED backend

NextKeys == CallGenerateSecretKey

SpecKeys == InitKeys /\ [][NextKeys]_vars

(***************************************************************************)
(* Properties.                                                             *)
(***************************************************************************)

\* Whether the second call was made on the str the first call returned.
Piped(encoder, decoder) ==
    /\ Len(calls) = 2
    /\ calls[1].fn = encoder /\ calls[2].fn = decoder
    /\ calls[2].args = <<calls[1].ret>>

\* C1: encoding round-trips are exact.  to_hex_string and to_base64_string
\* return a str for every byte array (the empty one included), and decoding
\* what to_hex_string, to_base64_string or to_string returned for a byte
\* array gives back that byte array (to_string returns a str for the byte
\* arrays that are valid UTF-8 and raises for the others).
C1_RoundTrip ==
    /\ \A k \in 1..Len(calls) :
          (calls[k].fn \in {"to_hex_string", "to_base64_string"}
              /\ IsBytes(calls[k].args[1])) => IsStr(calls[k].ret)
    /\ Piped("to_hex_string", "from_hex_string")
          => calls[2].ret = calls[1].args[1]
    /\ Piped("to_base64_string", "from_base64_string")
          => calls[2].ret = calls[1].args[1]
    /\ Piped("to_string", "from_string")
          => calls[2].ret = calls[1].args[1]

\* A four-byte UTF-8 sequence (U+1F000) went to a str and back.
C1_Witness ==
    /\ Piped("to_string", "from_string")
    /\ calls[1].args[1] = Bytes(<<240, 159, 128, 128>>)
    /\ calls[1].ret = Str(<<126976>>)
    /\ calls[2].ret = Bytes(<<240, 159, 128, 128>>)

EncodingFunctions ==
    {"to_hex_string", "from_hex_string", "to_base64_string",
     "from_base64_string", "to_string", "from_string"}

\* C2: each of the six encoding functions returns None, and raises nothing,
\* when its input is None.
C2_NoneIn_NoneOut ==
    \A k \in 1..Len(calls) :
        (calls[k].fn \in EncodingFunctions /\ calls[k].args = <<None>>)
            => calls[k].ret = None

\* from_hex_string was called on None and returned None.
C2_Witness ==
    /\ Len(calls) = 1
    /\ calls[1].fn = "from_hex_string"
    /\ calls[1].args = <<None>>
    /\ calls[1].ret = None

\* Whether the second call was from_hex_string("0x" + what to_hex_string
\* returned).
PrefixedHexDecoded ==
    /\ Len(calls) = 2
    /\ calls[1].fn = "to_hex_string" /\ calls[2].fn = "from_hex_string"
    /\ IsStr(calls[1].ret)
    /\ calls[2].args = <<Str(<<48, 120>> \o calls[1].ret.v)>>

\* C3: from_hex_string("0x" + to_hex_string(b)) raises no error and returns
\* b, for every byte array b.
C3_PrefixedHexDecodes ==
    PrefixedHexDecoded => calls[2].ret = calls[1].args[1]

IsHexDigit(c) == DigitValue(c) < 16

\* C4: from_hex_string raises, and returns no byte array, for the empty
\* string, for every string of odd length and for every string with a
\* character that is no hex digit.  bytearray.fromhex skips ASCII whitespace
\* between pairs of digits, so "0a " (odd length, a space) decodes to one
\* byte, and it decodes "" to the empty byte array.
C4_EmptyOddOrNonHexRaises ==
    \A k \in 1..Len(calls) :
        (/\ calls[k].fn = "from_hex_string"
         /\ IsStr(calls[k].args[1])
         /\ LET s == calls[k].args[1].v
            IN  \/ s = <<>>
                \/ Len(s) % 2 = 1
                \/ \E i \in 1..Len(s) : ~IsHexDigit(s[i]))
            => IsRaise(calls[k].ret)

\* Padded standard base-64: groups of four characters of the alphabet, the
\* last group ending in no, one or two pads.
WellFormedBase64(s) ==
    /\ Len(s) % 4 = 0
    /\ \A i \in 1..Len(s) :
          \/ B64Value(s[i]) < 64
          \/ /\ s[i] = 61
             /\ i >= Len(s) - 1
             /\ \A j \in (i + 1)..Len(s) : s[j] = 61

\* C5: from_base64_string raises for every str that is not well-formed
\* padded base-64; it never returns bytes for one.
C5_MalformedBase64Raises ==
    \A k \in 1..Len(calls) :
        (/\ calls[k].fn = "from_base64_string"
         /\ IsStr(calls[k].args[1])
         /\ ~WellFormedBase64(calls[k].args[1].v))
            => IsRaise(calls[k].ret)

\* C6: password(length) with a negative length raises, returning no str,
\* before any random character is drawn.
C6_NegativeLengthRaises ==
    \A k \in 1..Len(calls) :
        (calls[k].fn = "password" /\ calls[k].args[1] < 0)
            => IsRaise(calls[k].ret) /\ calls[k].rnd = <<>>

\* A-Z, a-z and 0-9 as code points.
Alphanumerics == (65..90) \cup (97..122) \cup (48..57)

\* C7: password(n), n >= 0, returns a str of exactly n characters, each of
\* the 62 characters A-Z, a-z, 0-9, which are the characters of
\* passwordCharacters; password(0) is the empty str.
C7_PasswordLengthAndAlphabet ==
    /\ {passwordCharacters[i] : i \in DOMAIN passwordCharacters} = Alphanumerics
    /\ Cardinality(Alphanumerics) = 62
    /\ \A k \in 1..Len(calls) :
          (calls[k].fn = "password" /\ calls[k].args[1] >= 0)
              => /\ IsStr(calls[k].ret)
                 /\ Len(calls[k].ret.v) = calls[k].args[1]
                 /\ \A i \in 1..Len(calls[k].ret.v) :
                       calls[k].ret.v[i] \in Alphanumerics
                 /\ calls[k].args[1] = 0 => calls[k].ret = Str(<<>>)

\* password(100) returned 100 characters, a digit among them.
C7_Witness ==
    /\ Len(calls) = 1
    /\ calls[1].fn = "password"
    /\ calls[1].args = <<100>>
    /\ IsStr(calls[1].ret)
    /\ Len(calls[1].ret.v) = 100
    /\ \E i \in 1..100 : calls[1].ret.v[i] = 57

\* C8: whatever bytes the random source returns, token() is a str that
\* from_hex_string decodes to exactly 32 bytes and salt() a str that
\* from_base64_string decodes to exactly 16 bytes: the bytes that
\* byte_array(32) and byte_array(16) got from the random source.
C8_TokenAndSaltLengths ==
    /\ \A k \in 1..Len(calls) :
          /\ calls[k].fn = "token"
                => IsStr(calls[k].ret) /\ Len(calls[k].rnd) = 32
          /\ calls[k].fn = "salt"
                => IsStr(calls[k].ret) /\ Len(calls[k].rnd) = 16
    /\ Piped("token", "from_hex_string")
          => /\ IsBytes(calls[2].ret)
             /\ Len(calls[2].ret.v) = 32
             /\ calls[2].ret.v = calls[1].rnd
    /\ Piped("salt", "from_base64_string")
          => /\ IsBytes(calls[2].ret)
             /\ Len(calls[2].ret.v) = 16
             /\ calls[2].ret.v = calls[1].rnd

\* A salt of the bytes 255, 0, 255, 0, ... was decoded to its 16 bytes.
C8_Witness ==
    /\ Piped("salt", "from_base64_string")
    /\ calls[1].rnd = [k \in 1..16 |-> IF k % 2 = 1 THEN 255 ELSE 0]
    /\ IsBytes(calls[2].ret)
    /\ Len(calls[2].ret.v) = 16

\* Whether call k is a call of generate_secret_key.
KeyCall(k) == calls[k].fn = "generate_secret_key"

\* Whether call k got a password that is not None and a salt that is
\* well-formed padded base-64.
KeyCallOnPasswordAndBase64Salt(k) ==
    /\ KeyCall(k)
    /\ calls[k].args[1] # None
    /\ IsStr(calls[k].args[2])
    /\ WellFormedBase64(calls[k].args[2].v)

\* C9 as claimed: for every password that is not None and every valid
\* base64 salt, generate_secret_key returns a key of exactly 32 bytes, and
\* two calls with the same password and salt return the same key.  A str
\* with a lone surrogate is a password that is not None, and for it
\* password.encode("utf-8") raises UnicodeEncodeError: no key is returned.
C9_EveryPasswordGivesKeyOf32Bytes ==
    \A i, j \in 1..Len(calls) :
        (/\ KeyCallOnPasswordAndBase64Salt(i)
         /\ KeyCallOnPasswordAndBase64Salt(j)
         /\ calls[i].args = calls[j].args)
        => /\ calls[i].ret.tag = "bytes"
           /\ Len(calls[i].ret.v) = 32
           /\ calls[i].ret = calls[j].ret

\* Whether a str is one UTF-8 can encode: it holds no surrogate.
IsEncodable(p) == IsStr(p) /\ \A i \in 1..Len(p.v) : ~IsSurrogate(p.v[i])

\* Whether call k got a str password and a salt that from_base64_string
\* decodes.
KeyCallOnDecodableSalt(k) ==
    /\ KeyCall(k)
    /\ IsStr(calls[k].args[1])
    /\ IsBytes(from_base64_string(calls[k].args[2]))

\* Whether, besides, UTF-8 can encode the password.
KeyCallOnValidInput(k) ==
    KeyCallOnDecodableSalt(k) /\ IsEncodable(calls[k].args[1])

\* PBKDF2-HMAC-SHA256 keys of 32 bytes after 1024 iterations, as
\* hashlib.pbkdf2_hmac("sha256", password, salt, 1024, 32) gives them:
\* of the password "a" and the salt byte 0,
KeyOfAAndZero ==
    <<140, 231, 66, 122, 91, 201, 26, 255,
      73, 11, 179, 150, 120, 238, 125, 234,
      138, 149, 183, 34, 124, 250, 192, 26,
      212, 82, 61, 150, 156, 248, 75, 89>>
\* of the password "a" and the salt bytes 1, 2, 3,
KeyOfAAndOneTwoThree ==
    <<169, 111, 250, 56, 44, 25, 1, 243,
      213, 98, 217, 252, 58, 126, 252, 117,
      253, 40, 136, 142, 119, 23, 46, 136,
      234, 182, 66, 90, 17, 115, 104, 238>>
\* of the password bytes 195, 169 ("\u00e9" in UTF-8) and the salt byte 0,
KeyOfEAcuteAndZero ==
    <<96, 181, 93, 159, 190, 223, 63, 201,
      227, 76, 14, 188, 67, 133, 203, 242,
      82, 44, 99, 245, 143, 134, 18, 0,
      10, 249, 209, 13, 169, 160, 124, 93>>
\* and of the password bytes 195, 169 and the salt bytes 1, 2, 3.
KeyOfEAcuteAndOneTwoThree ==
    <<31, 88, 105, 38, 213, 32, 208, 124,
      91, 84, 130, 4, 99, 69, 18, 172,
      5, 203, 73, 170, 43, 14, 230, 32,
      39, 179, 56, 216, 169, 8, 82, 120>>

\* The reference key of password bytes and salt bytes; no key for others.
ReferenceKey(password_bytes, salt_bytes) ==
    CASE password_bytes = <<97>> /\ salt_bytes = <<0>> -> KeyOfAAndZero
      [] password_bytes = <<97>> /\ salt_bytes = <<1, 2, 3>> ->
            KeyOfAAndOneTwoThree
      [] password_bytes = <<195, 169>> /\ salt_bytes = <<0>> ->
            KeyOfEAcuteAndZero
      [] password_bytes = <<195, 169>> /\ salt_bytes = <<1, 2, 3>> ->
            KeyOfEAcuteAndOneTwoThree
      [] OTHER -> <<>>

\* C9 as amended: for every password that UTF-8 can encode and every salt
\* that from_base64_string decodes, generate_secret_key returns a bytes
\* object of exactly 32 bytes, which is the PBKDF2-HMAC-SHA256 key, after
\* 1024 iterations, of the UTF-8 bytes of the password and the bytes the
\* salt decodes to; so two calls with the same password and with salts that
\* decode to the same bytes, be the salts the same text or not, return the
\* same key.  For a str password that UTF-8 cannot encode the call raises
\* UnicodeEncodeError and returns no key.
C9_KeyOfPasswordAndSaltBytes ==
    /\ \A k \in 1..Len(calls) :
          KeyCallOnValidInput(k) =>
              /\ calls[k].ret.tag = "bytes"
              /\ Len(calls[k].ret.v) = 32
              /\ calls[k].ret.v =
                    ReferenceKey(encode(calls[k].args[1].v, "utf-8").v,
                                 from_base64_string(calls[k].args[2]).v)
    /\ \A i, j \in 1..Len(calls) :
          (/\ KeyCallOnValidInput(i) /\ KeyCallOnValidInput(j)
           /\ calls[i].args[1] = calls[j].args[1]
           /\ from_base64_string(calls[i].args[2])
                  = from_base64_string(calls[j].args[2]))
          => calls[i].ret = calls[j].ret
    /\ \A k \in 1..Len(calls) :
          (KeyCallOnDecodableSalt(k) /\ ~IsEncodable(calls[k].args[1]))
              => calls[k].ret = Raise("UnicodeEncodeError")

\* The password "\u00e9" with the salts "AA==" and then "AA==\n", which both
\* decode to the byte 0, gave twice the key of the bytes 195, 169 and the
\* byte 0.
C9_Witness ==
    /\ Len(calls) = 2
    /\ KeyCallOnValidInput(1) /\ KeyCallOnValidInput(2)
    /\ calls[1].args = <<Str(<<233>>), Str(<<65, 65, 61, 61>>)>>
    /\ calls[2].args = <<Str(<<233>>), Str(<<65, 65, 61, 61, 10>>)>>
    /\ calls[1].ret = ImmutableBytes(KeyOfEAcuteAndZero)
    /\ calls[2].ret = calls[1].ret

\* C10: generate_secret_key(None, salt) returns None for every salt, one
\* that from_base64_string cannot decode and None included; no error is
\* raised.
C10_NonePasswordReturnsNone ==
    \A k \in 1..Len(calls) :
        (KeyCall(k) /\ calls[k].args[1] = None) => calls[k].ret = None

\* Without a password, a salt that is no base64 and then no salt at all
\* gave None both times.
C10_Witness ==
    /\ Len(calls) = 2
    /\ KeyCall(1) /\ KeyCall(2)
    /\ calls[1].args[1] = None /\ calls[2].args[1] = None
    /\ IsRaise(from_base64_string(calls[1].args[2]))
    /\ calls[2].args[2] = None
    /\ calls[1].ret = None /\ calls[2].ret = None

\* C11: generate_secret_key called with a password that is not None and a
\* salt that is None returns None and raises no error.  In the code
\* from_base64_string(None) is None and bytes(None) raises TypeError before
\* any key is derived, so the statement fails on every such call.
C11_NoneSaltReturnsNone ==
    \A k \in 1..Len(calls) :
        (KeyCall(k) /\ calls[k].args[1] # None /\ calls[k].args[2] = None)
            => calls[k].ret = None
====
